---- MODULE Spec2Model ----
(***************************************************************************)
(* A model of nb_cli/handlers.py: the entry-file patcher of install_plugin, *)
(* the launcher run_bot, the two scaffolding flows create_project and       *)
(* create_plugin, the interactive menu handle_no_subcommand and the compose *)
(* proxy _call_docker_compose.                                              *)
(*                                                                          *)
(* Text is modelled as a sequence of chunks.  A chunk is a run of           *)
(* characters that holds no line terminator, except the chunk "\n" itself.  *)
(* The two recognised prefixes "nonebot.load" and "nonebot.init" are chunks *)
(* of their own, so that str.startswith is the prefix test on sequences.    *)
(***************************************************************************)
EXTENDS Integers, Sequences, FiniteSets, TLC

VARIABLES fs, pipmain_bound, last, orig, installed

vars == <<fs, pipmain_bound, last, orig, installed>>

---------------------------------------------------------------------------
(* Bounds of the model *)

\* the longest entry file of an initial state, in lines
MaxLines == 3

\* the number of statements install_plugin writes in one behaviour
MaxInstalls == 2

---------------------------------------------------------------------------
(* Text, lines and files *)

NL == "\n"

\* the value of fs[f] when no regular file is at path f
NoFile == <<"<no such file>">>

Files == {"bot.py", "main.py"}

Packages == {"foo", "bar"}

\* the exit statuses pip's main returns: SUCCESS, ERROR, UNKNOWN_ERROR
Statuses == {0, 1, 2}

\* the line bodies the entry files of the initial states are made of
LineBodies ==
  { <<"import nonebot">>,
    <<"nonebot.init", "()">>,
    <<"    ", "nonebot.init", "()">>,
    <<"nonebot.load", "_builtin_plugins()">>,
    <<"nonebot.run()">> }

Range(s) == {s[i] : i \in 1..Len(s)}

RECURSIVE Flatten(_)
Flatten(ls) == IF ls = <<>> THEN <<>> ELSE Head(ls) \o Flatten(Tail(ls))

\* f.writelines(lines): the lines are written one after the other, and no
\* terminator is added
writelines(lines) == Flatten(lines)

\* the position of the first line terminator of s, 0 when it has none
FirstNL(s) ==
  IF \E i \in 1..Len(s) : s[i] = NL
  THEN CHOOSE i \in 1..Len(s) : s[i] = NL /\ \A j \in 1..(i - 1) : s[j] # NL
  ELSE 0

\* f.readlines(): every line keeps its terminator; the last line has none
\* when the file does not end in one
RECURSIVE readlines(_)
readlines(s) ==
  IF s = <<>> THEN <<>>
  ELSE LET n == FirstNL(s)
       IN IF n = 0 THEN <<s>>
          ELSE <<SubSeq(s, 1, n)>> \o readlines(SubSeq(s, n + 1, Len(s)))

\* lines[::-1]
Reversed(s) == [i \in 1..Len(s) |-> s[Len(s) + 1 - i]]

\* str.startswith without trimming: x has prefix as its first characters
startswith(x, prefix) ==
  Len(x) >= Len(prefix) /\ SubSeq(x, 1, Len(prefix)) = prefix

\* str.strip().startswith: the variant that looks at the trimmed line
startswith_trimmed(x, prefix) ==
  \/ startswith(x, prefix)
  \/ Len(x) >= 1 /\ x[1] = "    " /\ startswith(Tail(x), prefix)

\* the lambda of install_plugin, but trimming the line first
is_anchor_trimmed(x) ==
  \/ startswith_trimmed(x, <<"nonebot.load">>)
  \/ startswith_trimmed(x, <<"nonebot.init">>)

\* the lambda of install_plugin: x.startswith("nonebot.load") or
\* x.startswith("nonebot.init")
is_anchor(x) ==
  \/ startswith(x, <<"nonebot.load">>)
  \/ startswith(x, <<"nonebot.init">>)

\* list.index with the ValueError caught and 0 taken instead
list_index_or_zero(s, v) ==
  IF \E i \in 1..Len(s) : s[i] = v
  THEN [raised |-> FALSE,
        value |-> (CHOOSE i \in 1..Len(s) :
                     s[i] = v /\ \A j \in 1..(i - 1) : s[j] # v) - 1]
  ELSE [raised |-> FALSE, value |-> 0]

\* list.index(v): the 0-based position of the first v, ValueError when
\* there is none
list_index(s, v) ==
  IF \E i \in 1..Len(s) : s[i] = v
  THEN [raised |-> FALSE,
        value |-> (CHOOSE i \in 1..Len(s) :
                     s[i] = v /\ \A j \in 1..(i - 1) : s[j] # v) - 1]
  ELSE [raised |-> TRUE, value |-> 0]

\* list.insert(i, x) for 0 <= i <= len(list): x gets the 0-based position i
list_insert(s, i, x) == SubSeq(s, 1, i) \o <<x>> \o SubSeq(s, i + 1, Len(s))

\* f"nonebot.load_plugin(\"nonebot_plugin_{package}\")\n"
load_statement(package) ==
  <<"nonebot.load", "_plugin(\"nonebot_plugin_", package, "\")", NL>>

\* the scan from the front: the place after the FIRST anchor
insert_index_first(lines) ==
  LET found == list_index([i \in 1..Len(lines) |-> is_anchor(lines[i])], TRUE)
  IN [raised |-> found.raised, value |-> found.value + 1]

\* len(lines) - list(map(is_anchor, lines[::-1])).index(True)
insert_index(lines) ==
  LET rev == Reversed(lines)
      found == list_index([i \in 1..Len(rev) |-> is_anchor(rev[i])], TRUE)
  IN [raised |-> found.raised, value |-> Len(lines) - found.value]

---------------------------------------------------------------------------
(* What a handler did: the file system it leaves, the exception that ended *)
(* it ("" when it returned), the messages it printed, the calls it made to *)
(* the libraries, and the prompts it showed with the keys each returned.   *)

Msg(text, fg) == [text |-> text, fg |-> fg]

\* a call with positional arguments only
ExtCall(fn, argv) == [fn |-> fn, argv |-> argv, context |-> <<>>]

\* a call of cookiecutter: the template and output directory, and the
\* dict passed as extra_context
Generate(argv, context) ==
  [fn |-> "cookiecutter", argv |-> argv, context |-> context]

Asked(keys, answers) == [asked |-> keys, got |-> DOMAIN answers]

Outcome(fsv, err, msgs, calls, prompts) ==
  [fs |-> fsv, err |-> err, msgs |-> msgs, calls |-> calls,
   prompts |-> prompts, status |-> {}]

\* os.path.isfile(file)
isfile(fsv, file) == fsv[file] # NoFile

DefaultIndex == "https://pypi.org/pypi"

\* _call_pip_install: pipmain(["install", "-i", index, package]).  The name
\* pipmain is bound only when the import of pip._internal.cli.main worked;
\* the fallback import binds pipmainS instead
_call_pip_install(bound, package, index, status) ==
  IF bound
  THEN [raised |-> "", status |-> {status},
        calls |-> <<ExtCall("pipmain", <<"install", "-i", index, package>>)>>]
  ELSE [raised |-> "NameError", status |-> {}, calls |-> <<>>]

\* the branch of install_plugin with the test of the status left out
install_branch_any_status(status, present) ==
  IF present THEN "patch" ELSE "missing"

\* the branch of install_plugin with the elif left out
install_branch_no_elif(status, present) ==
  IF status = 0 /\ present THEN "patch" ELSE "none"

\* the if / elif of install_plugin
install_branch(status, present) ==
  IF status = 0 /\ present THEN "patch"
  ELSE IF status = 0 THEN "missing"
  ELSE "none"

\* install_plugin(package, file, index), the installer returning status
install_plugin(fsv, bound, package, file, status) ==
  LET pip == _call_pip_install(bound, "nonebot_plugin_" \o package,
                               DefaultIndex, status)
      branch == install_branch(status, isfile(fsv, file))
      lines == readlines(fsv[file])
      at == insert_index(lines)
      patched == list_insert(lines, at.value, load_statement(package))
      done(fsw, err, msgs) ==
        [Outcome(fsw, err, msgs, pip.calls, <<>>) EXCEPT !.status = pip.status]
  IN IF pip.raised # "" THEN done(fsv, pip.raised, <<>>)
     ELSE IF branch = "patch"
     THEN IF at.raised THEN done(fsv, "ValueError", <<>>)
          ELSE done([fsv EXCEPT ![file] = writelines(patched)], "", <<>>)
     ELSE IF branch = "missing"
     THEN done(fsv, "",
               <<Msg(<<"Cannot find ", file, " in current folder!">>, "red")>>)
     ELSE done(fsv, "", <<>>)

---------------------------------------------------------------------------
(* The launcher *)

\* os.path.splitext(file)
splitext(file) ==
  CASE file = "bot.py" -> <<"bot", ".py">>
    [] file = "main.py" -> <<"main", ".py">>

\* what the loaded module holds under the name app: nothing, a value that
\* is false in a condition (None), or a value that is true (an ASGI app)
ModuleAttrs == {"absent", "falsy", "truthy"}

\* getattr(module, app), called without a default: AttributeError when the
\* module has no such attribute
getattr(attr) ==
  IF attr = "absent" THEN [raised |-> "AttributeError", truthy |-> FALSE]
  ELSE [raised |-> "", truthy |-> attr = "truthy"]

\* lines 40 to 49 of run_bot: load the module, look the attribute up, start
\* the run loop
launch(fsv, file, app, attr) ==
  LET module_name == splitext(file)[1]
      import == ExtCall("importlib.import_module", <<module_name>>)
      _app == getattr(attr)
  IN IF _app.raised # ""
     THEN Outcome(fsv, _app.raised, <<>>, <<import>>, <<>>)
     ELSE IF ~_app.truthy
     THEN Outcome(fsv, "",
            <<Msg(<<"Cannot find an asgi server.">>, "")>>,
            <<import, ExtCall("nonebot.run", <<>>)>>, <<>>)
     ELSE Outcome(fsv, "", <<>>,
            <<import, ExtCall("nonebot.run", <<"app=", module_name, ":", app>>)>>,
            <<>>)

\* run_bot without the test of lines 36 to 38
run_bot_unchecked(fsv, file, app, attr) == launch(fsv, file, app, attr)

\* run_bot(file, app), the loaded module holding attr under the name app
run_bot(fsv, file, app, attr) ==
  IF ~isfile(fsv, file)
  THEN Outcome(fsv, "",
         <<Msg(<<"Cannot find ", file, " in current folder!">>, "red")>>,
         <<>>, <<>>)
  ELSE launch(fsv, file, app, attr)

---------------------------------------------------------------------------
(* The scaffolding flows *)

\* what prompt returns when the user cancels: no key at all
NoAnswers == [k \in {} |-> ""]

ProjectKeys == {"project_name", "use_src", "load_builtin"}

ProjectValues(k) ==
  IF k = "project_name" THEN {"demo"} ELSE {"True", "False"}

\* what prompt may return for the questions of create_project: values for
\* some or all of the keys asked
ProjectAnswers ==
  UNION { {a \in [K -> {"demo", "True", "False"}] :
             \A k \in K : a[k] \in ProjectValues(k)} : K \in SUBSET ProjectKeys }

\* the directories under the current one, and those of them that the glob
\* **/plugins/ finds
Dirs == {"plugins", "custom"}

Detected == <<"plugins">>

is_dir(d) == d \in Dirs

ErrorInput == Msg(<<"Error Input!">>, "red")

\* the test of create_project, looking for the first key only
keys_differ_first_only(keys, answers) == "project_name" \notin DOMAIN answers

\* keys != set(answers.keys())
keys_differ(keys, answers) == keys # DOMAIN answers

\* key not in answers
key_missing(key, answers) == key \notin DOMAIN answers

\* create_project(), prompt returning answers
create_project(fsv, answers) ==
  LET keys == ProjectKeys
      asked == <<Asked(keys, answers)>>
  IN IF keys_differ(keys, answers)
     THEN Outcome(fsv, "",
            <<Msg(<<"Error Input! Missing ">>, "red")>>, <<>>, asked)
     ELSE Outcome(fsv, "", <<>>,
            <<Generate(<<"project", ".">>, answers)>>, asked)

\* the last statement of create_plugin
generate_plugin(fsv, name, plugin_dir, msgs, prompts) ==
  Outcome(fsv, "", msgs,
          <<Generate(<<"plugin", plugin_dir>>,
                     [k \in {"plugin_name"} |-> name])>>,
          prompts)

\* the prompt for a directory typed in, of lines 168 to 178 and 181 to 191
ask_plugin_dir(fsv, name, a3, msgs, prompts) ==
  LET asked == Append(prompts, Asked({"plugin_dir"}, a3))
  IN IF key_missing("plugin_dir", a3)
     THEN Outcome(fsv, "", Append(msgs, ErrorInput), <<>>, asked)
     ELSE generate_plugin(fsv, name, a3["plugin_dir"], msgs, asked)

\* lines 151 to 196 of create_plugin, the name being known
choose_plugin_dir(fsv, name, plugin_dir, a2, a3, prompts) ==
  IF plugin_dir = ""
  THEN LET asked == Append(prompts, Asked({"plugin_dir"}, a2))
       IN IF key_missing("plugin_dir", a2)
          THEN Outcome(fsv, "", <<ErrorInput>>, <<>>, asked)
          ELSE IF a2["plugin_dir"] = "Other"
          THEN ask_plugin_dir(fsv, name, a3, <<>>, asked)
          ELSE generate_plugin(fsv, name, a2["plugin_dir"], <<>>, asked)
  ELSE IF ~is_dir(plugin_dir)
  THEN ask_plugin_dir(fsv, name, a3,
         <<Msg(<<"Plugin Dir is not a directory!">>, "yellow")>>, prompts)
  ELSE generate_plugin(fsv, name, plugin_dir, <<>>, prompts)

\* create_plugin(name, plugin_dir), the prompts returning a1, a2 and a3.
\* None and the empty string are both false in "not name", and are both "".
create_plugin(fsv, name, plugin_dir, a1, a2, a3) ==
  IF name = ""
  THEN LET asked == <<Asked({"plugin_name"}, a1)>>
       IN IF key_missing("plugin_name", a1)
          THEN Outcome(fsv, "", <<ErrorInput>>, <<>>, asked)
          ELSE choose_plugin_dir(fsv, a1["plugin_name"], plugin_dir, a2, a3,
                                 asked)
  ELSE choose_plugin_dir(fsv, name, plugin_dir, a2, a3, <<>>)

---------------------------------------------------------------------------
(* The compose proxy and the menu *)

\* _call_docker_compose(command, args): parse [command, *args] with the
\* grammar of docker-compose, set its loggers up, perform the command
_call_docker_compose(fsv, command, args) ==
  LET argv == <<command>> \o args
  IN Outcome(fsv, "", <<>>,
       <<ExtCall("DocoptDispatcher.parse", argv),
         ExtCall("setup_console_handler", <<>>),
         ExtCall("setup_parallel_logger", <<>>),
         ExtCall("perform_command", argv)>>,
       <<>>)

\* a call of _call_docker_compose with these positional arguments: the
\* function has the two parameters command and args, neither with a default
call_docker_compose(fsv, positional) ==
  IF Len(positional) # 2
  THEN Outcome(fsv, "TypeError", <<>>, <<>>, <<>>)
  ELSE _call_docker_compose(fsv, positional[1], positional[2])

MenuLabels ==
  <<"Show Logo",
    "Create a New Project",
    "Run the Bot in Current Folder",
    "Build Docker Image for the Bot",
    "Deploy the Bot to Docker",
    "Stop the Bot Container in Docker",
    "Create a New NoneBot Plugin">>

\* the dict choices of handle_no_subcommand: the callable of each label, a
\* function with the arguments functools.partial bound to it
choices(label) ==
  CASE label = "Show Logo" -> [fn |-> "draw_logo", bound |-> <<>>]
    [] label = "Create a New Project" ->
         [fn |-> "create_project", bound |-> <<>>]
    [] label = "Run the Bot in Current Folder" ->
         [fn |-> "run_bot", bound |-> <<>>]
    [] label = "Build Docker Image for the Bot" ->
         [fn |-> "_call_docker_compose", bound |-> <<"build", <<>>>>]
    [] label = "Deploy the Bot to Docker" ->
         [fn |-> "_call_docker_compose", bound |-> <<"up", <<"-d">>>>]
    [] label = "Stop the Bot Container in Docker" ->
         [fn |-> "_call_docker_compose", bound |-> <<"down">>]
    [] label = "Create a New NoneBot Plugin" ->
         [fn |-> "create_plugin", bound |-> <<>>]

\* draw_logo()
draw_logo(fsv) ==
  Outcome(fsv, "", <<Msg(<<"figlet NoneBot">>, "cyan")>>, <<>>, <<>>)

\* what the handlers called from the menu read from the user and from the
\* loaded module
NoInput ==
  [attr |-> "", answers |-> NoAnswers, a1 |-> NoAnswers, a2 |-> NoAnswers,
   a3 |-> NoAnswers]

\* answers["subcommand"](): the callable is called with no argument, so a
\* handler's parameters take their defaults
call(fsv, callable, in) ==
  CASE callable.fn = "draw_logo" -> draw_logo(fsv)
    [] callable.fn = "create_project" -> create_project(fsv, in.answers)
    [] callable.fn = "run_bot" -> run_bot(fsv, "bot.py", "app", in.attr)
    [] callable.fn = "_call_docker_compose" ->
         call_docker_compose(fsv, callable.bound \o <<>>)
    [] callable.fn = "create_plugin" ->
         create_plugin(fsv, "", "", in.a1, in.a2, in.a3)

\* handle_no_subcommand(), the user choosing label ("" when the prompt is
\* cancelled)
handle_no_subcommand(fsv, label, in) ==
  LET answers == IF label = "" THEN NoAnswers
                 ELSE [k \in {"subcommand"} |-> choices(label)]
      intro == draw_logo(fsv).msgs
                 \o <<Msg(<<NL>>, ""),
                      Msg(<<"Welcome to NoneBot CLI!">>, "green")>>
      asked == <<Asked({"subcommand"}, answers)>>
  IN IF key_missing("subcommand", answers)
     THEN Outcome(fsv, "", Append(intro, ErrorInput), <<>>, asked)
     ELSE LET r == call(fsv, answers["subcommand"], in)
          IN [r EXCEPT !.msgs = intro \o @, !.prompts = asked \o @]

\* _call_pip_search(package, index)
_call_pip_search(fsv, package, index) ==
  Outcome(fsv, "", <<>>,
    <<ExtCall("ServerProxy.search", <<index, package>>),
      ExtCall("print_package_results", <<>>)>>, <<>>)

\* search_plugin(package, index)
search_plugin(fsv, package) ==
  _call_pip_search(fsv, "nonebot_plugin_" \o package, DefaultIndex)

---------------------------------------------------------------------------
(* The state *)

RECURSIVE LinesUpTo(_)
LinesUpTo(n) ==
  IF n = 0 THEN {<<>>}
  ELSE LET shorter == LinesUpTo(n - 1)
       IN shorter \cup
          {Append(ls, b \o <<NL>>) : ls \in {l \in shorter : Len(l) = n - 1},
                                     b \in LineBodies}

\* a text file of up to MaxLines lines; the last line may lack its terminator
EntryFiles ==
  LET whole == {Flatten(ls) : ls \in LinesUpTo(MaxLines)}
  IN whole \cup {SubSeq(c, 1, Len(c) - 1) : c \in whole \ {<<>>}}

ExampleFile ==
  <<"import nonebot", NL, "nonebot.init", "()", NL, "nonebot.run()", NL>>

NoLast ==
  [op |-> "", args |-> <<>>, attr |-> "", status |-> {}, err |-> "",
   msgs |-> <<>>, calls |-> <<>>, prompts |-> <<>>, before |-> <<>>]

Done(op, args, attr, r) ==
  [op |-> op, args |-> args, attr |-> attr, status |-> r.status,
   err |-> r.err, msgs |-> r.msgs, calls |-> r.calls, prompts |-> r.prompts,
   before |-> fs]

Init ==
  /\ fs \in {[f \in Files |-> IF f = "bot.py" THEN c ELSE NoFile] :
               c \in EntryFiles \cup {NoFile}}
  /\ pipmain_bound \in BOOLEAN
  /\ last = NoLast
  /\ orig = fs
  /\ installed = [f \in Files |-> <<>>]

NInstalled == Len(installed["bot.py"]) + Len(installed["main.py"])

InstallPlugin ==
  /\ NInstalled < MaxInstalls
  /\ \E package \in Packages, file \in Files, status \in Statuses :
       LET r == install_plugin(fs, pipmain_bound, package, file, status)
       IN /\ fs' = r.fs
          /\ last' = Done("install_plugin", <<package, file>>, "", r)
          /\ installed' =
               IF r.fs # fs
               THEN [installed EXCEPT ![file] = Append(@, package)]
               ELSE installed
  /\ UNCHANGED <<pipmain_bound, orig>>

\* the answers prompt may return for each question of create_plugin
NameAnswers == {NoAnswers, [k \in {"plugin_name"} |-> "demo"]}

ListAnswers ==
  {NoAnswers} \cup {[k \in {"plugin_dir"} |-> d] : d \in Range(Detected) \cup {"Other"}}

DirAnswers == {NoAnswers} \cup {[k \in {"plugin_dir"} |-> d] : d \in Dirs}

\* what the handler of a menu label may read
MenuInputs(label) ==
  CASE label = "Run the Bot in Current Folder" ->
         {[NoInput EXCEPT !.attr = a] : a \in ModuleAttrs}
    [] label = "Create a New Project" ->
         {[NoInput EXCEPT !.answers = a] : a \in ProjectAnswers}
    [] label = "Create a New NoneBot Plugin" ->
         {[NoInput EXCEPT !.a1 = x, !.a2 = y, !.a3 = z] :
            x \in NameAnswers, y \in ListAnswers, z \in DirAnswers}
    [] OTHER -> {NoInput}

RunBot ==
  /\ \E file \in Files, app \in {"app", "asgi"}, attr \in ModuleAttrs :
       LET r == run_bot(fs, file, app, attr)
       IN /\ fs' = r.fs
          /\ last' = Done("run_bot", <<file, app>>, attr, r)
  /\ UNCHANGED <<pipmain_bound, orig, installed>>

CreateProject ==
  /\ \E answers \in ProjectAnswers :
       LET r == create_project(fs, answers)
       IN /\ fs' = r.fs
          /\ last' = Done("create_project", <<>>, "", r)
  /\ UNCHANGED <<pipmain_bound, orig, installed>>

CreatePlugin ==
  /\ \E name \in {"", "demo"}, plugin_dir \in {"", "plugins", "nowhere"},
        a1 \in NameAnswers, a2 \in ListAnswers, a3 \in DirAnswers :
       LET r == create_plugin(fs, name, plugin_dir, a1, a2, a3)
       IN /\ fs' = r.fs
          /\ last' = Done("create_plugin", <<name, plugin_dir>>, "", r)
  /\ UNCHANGED <<pipmain_bound, orig, installed>>

HandleNoSubcommand ==
  /\ \E label \in Range(MenuLabels) \cup {""} :
       \E in \in MenuInputs(label) :
         LET r == handle_no_subcommand(fs, label, in)
         IN /\ fs' = r.fs
            /\ last' = Done("handle_no_subcommand", <<label>>, in.attr, r)
  /\ UNCHANGED <<pipmain_bound, orig, installed>>

CallDockerCompose ==
  /\ \E command \in {"build", "up", "down"}, args \in {<<>>, <<"-d">>} :
       LET r == _call_docker_compose(fs, command, args)
       IN /\ fs' = r.fs
          /\ last' = Done("_call_docker_compose", <<command>> \o args, "", r)
  /\ UNCHANGED <<pipmain_bound, orig, installed>>

SearchPlugin ==
  /\ \E package \in Packages :
       LET r == search_plugin(fs, package)
       IN /\ fs' = r.fs
          /\ last' = Done("search_plugin", <<package>>, "", r)
  /\ UNCHANGED <<pipmain_bound, orig, installed>>

\* every handler, from the initial states whose entry file is the example
\* or is missing
InitCli == Init /\ fs["bot.py"] \in {ExampleFile, NoFile}

Next ==
  \/ InstallPlugin
  \/ RunBot
  \/ CreateProject
  \/ CreatePlugin
  \/ HandleNoSubcommand
  \/ CallDockerCompose
  \/ SearchPlugin

Spec == InitCli /\ [][Next]_vars

\* install_plugin alone, from every entry file of up to MaxLines lines
NextPatch == InstallPlugin

SpecPatch == Init /\ [][NextPatch]_vars

---------------------------------------------------------------------------
(* The entry-file patcher: claims C1 to C4, C9 and C10 *)

LastInstall == last.op = "install_plugin"

LastPackage == last.args[1]

LastFile == last.args[2]

\* the last install_plugin call found its entry file and pip returned 0
PatchAttempted ==
  /\ LastInstall
  /\ last.status = {0}
  /\ last.before[LastFile] # NoFile

LinesBefore == readlines(last.before[LastFile])

\* the line begins, at its first character, with one of the two prefixes
BeginsWithPrefix(line) ==
  Len(line) >= 1 /\ line[1] \in {"nonebot.load", "nonebot.init"}

\* the line, with its leading whitespace removed, begins with a prefix
TrimmedBeginsWithPrefix(line) ==
  \/ BeginsWithPrefix(line)
  \/ Len(line) >= 2 /\ line[1] = "    " /\ BeginsWithPrefix(Tail(line))

LastOf(S) == CHOOSE k \in S : \A j \in S : j <= k

RawAnchors == {k \in 1..Len(LinesBefore) : BeginsWithPrefix(LinesBefore[k])}

TrimmedAnchors ==
  {k \in 1..Len(LinesBefore) : TrimmedBeginsWithPrefix(LinesBefore[k])}

StatementFor(package) ==
  <<"nonebot.load", "_plugin(\"nonebot_plugin_", package, "\")", NL>>

\* the entry file holds the text up to the end of line k, then the
\* statement, then the rest of the text
InsertedAfter(k) ==
  /\ last.err = ""
  /\ fs[LastFile] = Flatten(SubSeq(LinesBefore, 1, k))
                      \o StatementFor(LastPackage)
                      \o Flatten(SubSeq(LinesBefore, k + 1, Len(LinesBefore)))
  /\ k < Len(LinesBefore) =>
       readlines(fs[LastFile]) =
         SubSeq(LinesBefore, 1, k) \o <<StatementFor(LastPackage)>>
           \o SubSeq(LinesBefore, k + 1, Len(LinesBefore))

\* C1: when pip returns 0, the entry file exists and holds a line starting
\* with "nonebot.load" or "nonebot.init", the load statement is inserted
\* right after the last such line, before the line that followed it; the
\* file [import nonebot, nonebot.init(), nonebot.run()] with package foo
\* becomes [import nonebot, nonebot.init(),
\* nonebot.load_plugin("nonebot_plugin_foo"), nonebot.run()].
C1_InsertedAfterLastAnchor ==
  (PatchAttempted /\ RawAnchors # {}) =>
    /\ InsertedAfter(LastOf(RawAnchors))
    /\ (last.before[LastFile] = ExampleFile /\ LastPackage = "foo") =>
         readlines(fs[LastFile]) =
           << <<"import nonebot", NL>>,
              <<"nonebot.init", "()", NL>>,
              <<"nonebot.load", "_plugin(\"nonebot_plugin_", "foo", "\")", NL>>,
              <<"nonebot.run()", NL>> >>

C1_Witness ==
  /\ PatchAttempted
  /\ last.before[LastFile] = ExampleFile
  /\ LastPackage = "foo"
  /\ fs[LastFile] # ExampleFile

\* C2: when pip returns 0 and the entry file exists but no line of it starts
\* with either prefix, the call ends in an error and the file keeps the
\* content it had.
C2_NoAnchorIsAnError ==
  (PatchAttempted /\ RawAnchors = {}) =>
    /\ last.err # ""
    /\ fs = last.before

C2_Witness ==
  /\ PatchAttempted
  /\ RawAnchors = {}
  /\ Len(LinesBefore) >= 2
  /\ last.err = "ValueError"

\* C3: when pip returns a nonzero status, no file is changed or created and
\* install_plugin prints nothing, whether the entry file exists or not.
C3_NonzeroStatusIsNoOp ==
  (LastInstall /\ last.status # {} /\ last.status # {0}) =>
    /\ fs = last.before
    /\ last.msgs = <<>>

C3_Witness ==
  /\ LastInstall
  /\ last.status = {1}
  /\ last.before[LastFile] = ExampleFile
  /\ fs = last.before

\* C4: when pip returns 0 and the entry file does not exist, a "Cannot find
\* <file>" message is printed, the file is not created and no other file
\* changes.
C4_MissingFileIsReported ==
  (LastInstall /\ last.status = {0} /\ last.before[LastFile] = NoFile) =>
    /\ \E i \in 1..Len(last.msgs) : last.msgs[i].text[1] = "Cannot find "
                                    /\ last.msgs[i].text[2] = LastFile
    /\ fs = last.before

C4_Witness ==
  /\ LastInstall
  /\ last.status = {0}
  /\ last.before[LastFile] = NoFile
  /\ last.before["bot.py"] = ExampleFile
  /\ Len(last.msgs) = 1

\* C9 as claimed: an anchor is recognised by its trimmed content, so when
\* the last line whose trimmed content starts with a prefix is indented, the
\* statement is inserted right after that line.
C9_TrimmedAnchor ==
  (PatchAttempted /\ TrimmedAnchors # {}) =>
    InsertedAfter(LastOf(TrimmedAnchors))

\* C9 as amended: an anchor is recognised by its raw content.  A line with
\* whitespace before the prefix is not an anchor: the statement goes after
\* the last line that starts with a prefix at its first character, and when
\* only indented lines carry a prefix the call ends in ValueError and the
\* file is unchanged.
C9_RawAnchor ==
  (PatchAttempted /\ TrimmedAnchors # RawAnchors) =>
    IF RawAnchors # {}
    THEN InsertedAfter(LastOf(RawAnchors))
    ELSE last.err = "ValueError" /\ fs = last.before

C9_Witness ==
  /\ PatchAttempted
  /\ RawAnchors # {}
  /\ LastOf(TrimmedAnchors) > LastOf(RawAnchors)
  /\ last.err = ""
  /\ fs # last.before

\* C10: after n successful installs into an entry file, the file read back
\* as lines is the original lines in their order plus n load statements,
\* each a line of its own, placed together after the original last anchor
\* in the order of the installs; also when that anchor is the last line and
\* has no terminator.
OrigLines(f) == readlines(orig[f])

OrigAnchors(f) ==
  {k \in 1..Len(OrigLines(f)) : BeginsWithPrefix(OrigLines(f)[k])}

C10_LinesPreserved ==
  \A f \in Files :
    (orig[f] # NoFile /\ installed[f] # <<>>) =>
      LET k == LastOf(OrigAnchors(f))
      IN readlines(fs[f]) =
           SubSeq(OrigLines(f), 1, k)
             \o [i \in 1..Len(installed[f]) |-> StatementFor(installed[f][i])]
             \o SubSeq(OrigLines(f), k + 1, Len(OrigLines(f)))

---------------------------------------------------------------------------
(* The prompts, the launcher and the menu: claims C5 to C8 *)

LastFromMenu == last.op = "handle_no_subcommand"

LastScaffold ==
  last.op \in {"create_project", "create_plugin", "handle_no_subcommand"}

\* some prompt of the last handler returned other keys than it asked for
SomePromptIncomplete ==
  \E i \in 1..Len(last.prompts) : last.prompts[i].got # last.prompts[i].asked

CallsOf(fn) == {i \in 1..Len(last.calls) : last.calls[i].fn = fn}

ErrorShown ==
  \E i \in 1..Len(last.msgs) :
    /\ last.msgs[i].fg = "red"
    /\ last.msgs[i].text[1] \in {"Error Input!", "Error Input! Missing "}

\* C5: in create_project and create_plugin (also when started from the
\* menu), when a prompt returns a key set other than the one asked for, the
\* template generator is not called and an error message is printed; so the
\* generator runs only when every prompt shown returned all its keys.
C5_IncompleteAnswersAbort ==
  (LastScaffold /\ SomePromptIncomplete) =>
    /\ CallsOf("cookiecutter") = {}
    /\ ErrorShown
    /\ last.err = ""

C5_Witness ==
  /\ last.op = "create_plugin"
  /\ Len(last.prompts) = 3
  /\ last.prompts[1].got = {"plugin_name"}
  /\ last.prompts[3].got = {}
  /\ CallsOf("cookiecutter") = {}

\* the last handler was run_bot, called directly or from the menu
LastRun ==
  \/ last.op = "run_bot"
  \/ LastFromMenu /\ last.args[1] = "Run the Bot in Current Folder"

RunFile == IF last.op = "run_bot" THEN last.args[1] ELSE "bot.py"

RunApp == IF last.op = "run_bot" THEN last.args[2] ELSE "app"

\* C6: with the entry file present, run_bot starts the run loop exactly
\* once and does not end in an error: without an ASGI handle and with a
\* warning when the module has no attribute named app, with the reference
\* "<module>:<app>" when it has one.
C6_RunLoopStarted ==
  (LastRun /\ last.before[RunFile] # NoFile) =>
    /\ last.err = ""
    /\ Cardinality(CallsOf("nonebot.run")) = 1
    /\ \A i \in CallsOf("nonebot.run") :
         /\ last.attr = "absent" =>
              last.calls[i].argv = <<>> /\ Len(last.msgs) >= 1
         /\ last.attr = "truthy" =>
              last.calls[i].argv =
                <<"app=", splitext(RunFile)[1], ":", RunApp>>

\* C7: when the entry file does not exist, run_bot prints a message, loads
\* no module, starts no run loop and returns normally.
C7_MissingFileStartsNothing ==
  (LastRun /\ last.before[RunFile] = NoFile) =>
    /\ last.err = ""
    /\ \E i \in 1..Len(last.msgs) :
         last.msgs[i].text[1] = "Cannot find " /\ last.msgs[i].text[2] = RunFile
    /\ CallsOf("importlib.import_module") = {}
    /\ CallsOf("nonebot.run") = {}
    /\ fs = last.before

C7_Witness ==
  /\ last.op = "run_bot"
  /\ last.args[1] = "bot.py"
  /\ last.before["bot.py"] = NoFile
  /\ last.attr = "truthy"
  /\ last.calls = <<>>

ComposeLabels ==
  {"Build Docker Image for the Bot", "Deploy the Bot to Docker",
   "Stop the Bot Container in Docker"}

ComposeArgv(label) ==
  CASE label = "Build Docker Image for the Bot" -> <<"build">>
    [] label = "Deploy the Bot to Docker" -> <<"up", "-d">>
    [] label = "Stop the Bot Container in Docker" -> <<"down">>

\* C8: each of the three compose entries of the menu, once chosen, makes one
\* call of the compose proxy, which parses and performs [build], [up, -d]
\* and [down]; none ends in an error before the external tool is reached.
C8_ComposeVariants ==
  (LastFromMenu /\ last.args[1] \in ComposeLabels) =>
    /\ last.err = ""
    /\ Cardinality(CallsOf("DocoptDispatcher.parse")) = 1
    /\ Cardinality(CallsOf("perform_command")) = 1
    /\ \A i \in CallsOf("DocoptDispatcher.parse") \cup CallsOf("perform_command") :
         last.calls[i].argv = ComposeArgv(last.args[1])

====
